---- MODULE Spec2Model ----
(***************************************************************************)
(* Stock-management backend: the inventory handlers (stock_in,             *)
(* stock_transfer, adjust_inventory, record_daily_count) over the          *)
(* inventory, stock_transactions and daily_counts tables, and the start-up *)
(* sequence (wait_for_database, setup_database_with_retry, main).          *)
(*                                                                         *)
(* The database outlives the process: its content when the first request   *)
(* arrives is any content that satisfies the constraints the models        *)
(* declare.  A handler runs in one SQLAlchemy session; what it did is      *)
(* written by db.session.commit() and discarded when it raises.            *)
(***************************************************************************)
EXTENDS Integers, Sequences, FiniteSets, Bags, TLC

VARIABLES
  inventory,     \* the inventory table: a set of rows
  transactions,  \* the stock_transactions table, in insertion order
  dailyCounts,   \* the daily_counts table: a set of rows
  req,           \* the request handled last
  resp,          \* its HTTP status
  pre,           \* the tables as they were before it
  pc,            \* where the start-up of main.py is
  attempt,       \* wait_for_database: the loop variable
  outcomes,      \* wait_for_database: how each attempt made so far ended
  slept,         \* wait_for_database: the time.sleep() calls made so far
  waitResult,    \* what wait_for_database returned
  initCalled,    \* initialize_database has been called
  initResult,    \* what initialize_database returned
  setupResult,   \* what setup_database_with_retry returned
  exitStatus,    \* the exit status of the process
  serving,       \* the application serves requests
  max_retries,   \* DatabaseConnectionManager.max_retries
  retry_delay,   \* DatabaseConnectionManager.retry_delay, in milliseconds
  environ,       \* os.environ: the variables that are set, with their values
  errors,        \* EnvironmentValidator.errors
  warnings,      \* EnvironmentValidator.warnings
  validated_config, \* EnvironmentValidator.validated_config
  validation,    \* how the last validate_all call ended
  appCreated,    \* main.py: app = Flask(...) has run
  blueprintsRegistered, \* main.py: the blueprints are registered
  rate_limit_storage,   \* SecurityMiddleware.rate_limit_storage
  now,           \* time.time(), in seconds
  threads,       \* the request threads inside _check_rate_limit
  answered,      \* per address, the times of the requests accepted so far
  workers        \* the request threads inside stock_transfer

dbvars == <<inventory, transactions, dailyCounts, req, resp, pre>>
startvars == <<pc, attempt, outcomes, slept, waitResult, initCalled,
               initResult, setupResult, exitStatus, serving, max_retries,
               retry_delay>>
envvars == <<environ, errors, warnings, validated_config, validation>>
appvars == <<appCreated, blueprintsRegistered>>
ratevars == <<rate_limit_storage, now, threads, answered>>
vars == <<inventory, transactions, dailyCounts, req, resp, pre,
          pc, attempt, outcomes, slept, waitResult, initCalled, initResult,
          setupResult, exitStatus, serving, max_retries, retry_delay,
          environ, errors, warnings, validated_config, validation,
          appCreated, blueprintsRegistered,
          rate_limit_storage, now, threads, answered, workers>>

\* ------------------------------------------------------------- bounds
MaxQty == 2
MaxRows == 2
MaxRetriesBound == 4

Products == {1}
Locations == {1, 2}
Dates == {1, 2}
Quantities == 0 .. MaxQty
\* Python's None in an integer column or request field, and the exit status of
\* a process that has not exited.
None == 0 - 1000

\* ------------------------------------------------------------- the models
\* Attributes of class Inventory: the keyword arguments db.Model's
\* constructor accepts (any other keyword raises TypeError).
InventoryAttrs ==
  {"id", "quantity", "product_id", "location_id", "product", "location",
   "created_at", "updated_at"}

\* Attributes of class StockTransaction.
StockTransactionAttrs ==
  {"id", "transaction_type", "quantity", "notes", "product_id",
   "from_location_id", "to_location_id", "user_id", "product",
   "from_location", "to_location", "user", "created_at"}

\* Columns of stock_transactions declared nullable=False that have no default
\* and are not the autoincremented key: an INSERT leaving one unset fails.
StockTransactionRequired ==
  {"transaction_type", "quantity", "product_id", "user_id"}

\* Attributes of class DailyCount.
DailyCountAttrs ==
  {"id", "count_date", "counted_quantity", "calculated_usage", "product_id",
   "location_id", "user_id", "product", "location", "user", "created_at"}

\* Columns of daily_counts declared nullable=False, as above.
DailyCountRequired ==
  {"count_date", "counted_quantity", "product_id", "location_id", "user_id"}

\* The inventory table without its unique constraint.
unique_product_location_Off(rows) == TRUE

\* UniqueConstraint('product_id', 'location_id') on inventory.
unique_product_location(rows) ==
  \A a \in rows : \A b \in rows :
     (a.product_id = b.product_id /\ a.location_id = b.location_id) => a = b

\* The daily_counts table without its unique constraint.
unique_daily_count_Off(rows) == TRUE

\* UniqueConstraint('product_id', 'location_id', 'count_date') on daily_counts.
unique_daily_count(rows) ==
  \A a \in rows : \A b \in rows :
     (a.product_id = b.product_id /\ a.location_id = b.location_id
        /\ a.count_date = b.count_date) => a = b

\* id = db.Column(db.Integer, primary_key=True)
PrimaryKey(rows) == \A a \in rows : \A b \in rows : a.id = b.id => a = b

\* ------------------------------------------------------------- queries
\* Query.first() of a result that is not empty (an empty result, for which
\* first() is None, is tested as rows = {}).  Under the unique constraints a
\* filter on the whole key matches at most one row; the row with the least id
\* stands for the first one otherwise.
First(rows) == CHOOSE r \in rows : \A s \in rows : r.id <= s.id

\* The filter with the location left out.
InventoryOf_AnyLocation(inv, p, l) == {r \in inv : r.product_id = p}

\* Inventory.query.filter_by(product_id=p, location_id=l)
InventoryOf(inv, p, l) ==
  {r \in inv : r.product_id = p /\ r.location_id = l}

\* DailyCount.query.filter_by(product_id=p, location_id=l, count_date=d)
DailyCountOf(dc, p, l, d) ==
  {r \in dc : r.product_id = p /\ r.location_id = l /\ r.count_date = d}

\* The autoincremented primary key of a new row.
NextId(rows) ==
  IF rows = {} THEN 1
  ELSE (CHOOSE r \in rows : \A s \in rows : r.id >= s.id).id + 1

\* row.quantity = q, written back to the table: UPDATE inventory SET
\* quantity = q WHERE id = row.id.
SetQuantity(inv, row, q) ==
  {IF r.id = row.id THEN [r EXCEPT !.quantity = q] ELSE r : r \in inv}

\* db.session.add(Inventory(product_id=p, location_id=l, quantity=q))
AddInventory(inv, p, l, q) ==
  inv \cup {[id |-> NextId(inv), product_id |-> p, location_id |-> l,
             quantity |-> q]}

\* A StockTransaction row as the session would insert it.
Txn(p, l, type, q) ==
  [product_id |-> p, location_id |-> l, transaction_type |-> type,
   quantity |-> q]

\* The outcome of a handler: the HTTP status and the database it leaves.
Outcome(status, inv, txs, dc) ==
  [status |-> status, inventory |-> inv, transactions |-> txs,
   dailyCounts |-> dc]

\* An exception leaves the handler: Flask answers 500 and the session is
\* removed without a commit.
Raise(inv, txs, dc) == Outcome(500, inv, txs, dc)

\* db.session.flush() of a new row: the INSERT fails with IntegrityError when
\* a required column was not given to the constructor.
FlushOk(kwargs, required) == required \subseteq kwargs

\* db.session.commit(): the database rejects a transaction that breaks a key
\* or a unique constraint.
IntegrityOk(inv, dc) ==
  /\ PrimaryKey(inv) /\ PrimaryKey(dc)
  /\ unique_product_location(inv)
  /\ unique_daily_count(dc)

\* ------------------------------------------------------------- stock_in
\* Keyword arguments of StockTransaction(...) in stock_in.
stock_in_kwargs ==
  {"product_id", "location_id", "transaction_type", "quantity",
   "supplier_id", "notes"}

stock_in(inv, txs, dc, p, l, q) ==
  IF ~(stock_in_kwargs \subseteq StockTransactionAttrs)
  THEN Raise(inv, txs, dc)                       \* TypeError, line 16
  ELSE IF ~FlushOk(stock_in_kwargs, StockTransactionRequired)
  THEN Raise(inv, txs, dc)                       \* autoflush of line 27
  ELSE
    LET found == InventoryOf(inv, p, l)
        inv2 == IF found = {}
                THEN AddInventory(inv, p, l, q)
                ELSE SetQuantity(inv, First(found),
                                 First(found).quantity + q)
        txs2 == Append(txs, Txn(p, l, "stock_in", q))
    IN IF IntegrityOk(inv2, dc)
       THEN Outcome(201, inv2, txs2, dc)
       ELSE Raise(inv, txs, dc)

\* ------------------------------------------------------------- stock_transfer
\* Keyword arguments of the transfer_out and transfer_in transactions.
transfer_out_kwargs ==
  {"product_id", "location_id", "transaction_type", "quantity", "notes"}

transfer_in_kwargs ==
  {"product_id", "location_id", "transaction_type", "quantity",
   "reference_id", "notes"}

\* The check with the comparison of the quantities left out.
InsufficientStock_NoCompare(source, q) == source = {}

\* not source_inventory or source_inventory.quantity < quantity
InsufficientStock(source, q) ==
  \/ source = {}
  \/ First(source).quantity < q

\* The handler from line 61 on, source being the result of the query of
\* lines 56-59 and inv, txs, dc the tables when the rest runs.
stock_transfer_from(source, inv, txs, dc, p, from, to, q) ==
  IF InsufficientStock(source, q)
  THEN Outcome(400, inv, txs, dc)
  ELSE IF ~(transfer_out_kwargs \subseteq StockTransactionAttrs)
  THEN Raise(inv, txs, dc)                       \* TypeError, line 65
  ELSE IF ~(transfer_in_kwargs \subseteq StockTransactionAttrs)
  THEN Raise(inv, txs, dc)                       \* TypeError, line 75
  ELSE IF ~(/\ FlushOk(transfer_out_kwargs, StockTransactionRequired)
            /\ FlushOk(transfer_in_kwargs, StockTransactionRequired))
  THEN Raise(inv, txs, dc)                       \* autoflush of line 89
  ELSE
    LET inv1 == SetQuantity(inv, First(source), First(source).quantity - q)
        dest == InventoryOf(inv1, p, to)
        inv2 == IF dest = {}
                THEN AddInventory(inv1, p, to, q)
                ELSE SetQuantity(inv1, First(dest), First(dest).quantity + q)
        txs2 == Append(Append(txs, Txn(p, from, "transfer_out", 0 - q)),
                       Txn(p, to, "transfer_in", q))
    IN IF IntegrityOk(inv2, dc)
       THEN Outcome(201, inv2, txs2, dc)
       ELSE Raise(inv, txs, dc)

stock_transfer(inv, txs, dc, p, from, to, q) ==
  stock_transfer_from(InventoryOf(inv, p, from), inv, txs, dc, p, from, to, q)

\* ------------------------------------------------------------- adjust_inventory
\* Keyword arguments of Inventory(...) in the handlers that create one.
inventory_kwargs == {"product_id", "location_id", "quantity"}

\* Keyword arguments of StockTransaction(...) in adjust_inventory.
adjustment_kwargs ==
  {"product_id", "location_id", "transaction_type", "quantity",
   "reference_id", "notes"}

adjust_inventory(inv, txs, dc, p, l, n) ==
  LET found == InventoryOf(inv, p, l) IN
  IF found = {} /\ ~(inventory_kwargs \subseteq InventoryAttrs)
  THEN Raise(inv, txs, dc)
  ELSE
    LET inv1 == IF found = {} THEN AddInventory(inv, p, l, 0) ELSE inv
        row == First(InventoryOf(inv1, p, l))
        old_quantity == row.quantity
        inv2 == SetQuantity(inv1, row, n)
        txs2 == Append(txs, Txn(p, l, "adjustment", n - old_quantity))
    IN IF ~(adjustment_kwargs \subseteq StockTransactionAttrs)
       THEN Raise(inv, txs, dc)                  \* TypeError, line 75
       ELSE IF ~FlushOk(adjustment_kwargs, StockTransactionRequired)
       THEN Raise(inv, txs, dc)                  \* commit, line 85
       ELSE IF IntegrityOk(inv2, dc)
       THEN Outcome(200, inv2, txs2, dc)
       ELSE Raise(inv, txs, dc)

\* ------------------------------------------------------------- record_daily_count
\* Keyword arguments of DailyCount(...) in record_daily_count.
daily_count_kwargs ==
  {"product_id", "location_id", "count_date", "starting_quantity",
   "counted_quantity", "calculated_usage"}

\* Keyword arguments of the daily_usage and daily_usage_adjustment
\* transactions.
daily_usage_kwargs ==
  {"product_id", "location_id", "transaction_type", "quantity",
   "reference_id", "notes"}

\* if existing_count: ... (lines 35-58)
update_daily_count(inv, txs, dc, found, existing_count, p, l, c) ==
  LET old_usage == existing_count.calculated_usage
      new_usage == found.quantity - c
      dc2 == (dc \ {existing_count}) \cup
               {[existing_count EXCEPT !.counted_quantity = c,
                                       !.calculated_usage = new_usage]}
      inv2 == SetQuantity(inv, found, c)
  IN IF old_usage = None
     THEN Raise(inv, txs, dc)                    \* int - None, line 45
     ELSE LET usage_diff == new_usage - old_usage IN
       IF usage_diff # 0
       THEN IF ~(daily_usage_kwargs \subseteq StockTransactionAttrs)
            THEN Raise(inv, txs, dc)             \* TypeError, line 47
            ELSE IF ~FlushOk(daily_usage_kwargs, StockTransactionRequired)
            THEN Raise(inv, txs, dc)
            ELSE IF IntegrityOk(inv2, dc2)
            THEN Outcome(200, inv2,
                         Append(txs, Txn(p, l, "daily_usage_adjustment",
                                         0 - usage_diff)), dc2)
            ELSE Raise(inv, txs, dc)
       ELSE IF IntegrityOk(inv2, dc2)
            THEN Outcome(200, inv2, txs, dc2)
            ELSE Raise(inv, txs, dc)

\* else: ... (lines 60-91)
create_daily_count(inv, txs, dc, found, p, l, d, c) ==
  LET calculated_usage == found.quantity - c
      dc2 == dc \cup {[id |-> NextId(dc), product_id |-> p,
                       location_id |-> l, count_date |-> d,
                       counted_quantity |-> c,
                       calculated_usage |-> calculated_usage]}
      inv2 == SetQuantity(inv, found, c)
      txs2 == IF calculated_usage > 0
              THEN Append(txs, Txn(p, l, "daily_usage", 0 - calculated_usage))
              ELSE txs
  IN IF ~(daily_count_kwargs \subseteq DailyCountAttrs)
     THEN Raise(inv, txs, dc)                    \* TypeError, line 65
     ELSE IF calculated_usage > 0
             /\ ~(daily_usage_kwargs \subseteq StockTransactionAttrs)
     THEN Raise(inv, txs, dc)                    \* TypeError, line 80
     ELSE IF ~FlushOk(daily_count_kwargs, DailyCountRequired)
     THEN Raise(inv, txs, dc)                    \* commit, line 90
     ELSE IF calculated_usage > 0
             /\ ~FlushOk(daily_usage_kwargs, StockTransactionRequired)
     THEN Raise(inv, txs, dc)
     ELSE IF IntegrityOk(inv2, dc2)
     THEN Outcome(201, inv2, txs2, dc2)
     ELSE Raise(inv, txs, dc)

record_daily_count(inv, txs, dc, p, l, d, c) ==
  LET found == InventoryOf(inv, p, l)
      existing_count == DailyCountOf(dc, p, l, d)
  IN IF found = {}
     THEN Outcome(404, inv, txs, dc)
     ELSE IF existing_count # {}
     THEN update_daily_count(inv, txs, dc, First(found),
                             First(existing_count), p, l, c)
     ELSE create_daily_count(inv, txs, dc, First(found), p, l, d, c)

\* ------------------------------------------------------------- the environment
\* A string is the sequence of its characters; os.environ is a function from
\* the names of the variables that are set to their values.
Letters ==
  {"a", "b", "c", "d", "e", "f", "g", "h", "i", "j", "k", "l", "m",
   "n", "o", "p", "q", "r", "s", "t", "u", "v", "w", "x", "y", "z",
   "A", "B", "C", "D", "E", "F", "G", "H", "I", "J", "K", "L", "M",
   "N", "O", "P", "Q", "R", "S", "T", "U", "V", "W", "X", "Y", "Z"}

Digits ==
  {"0", "1", "2", "3", "4", "5", "6", "7", "8", "9"}

\* set(value)
Chars(s) == {s[i] : i \in 1 .. Len(s)}

\* 'change-me', 'your-super-secret-key-change-in-production', 'dev-key'
ChangeMe ==
  <<"c", "h", "a", "n", "g", "e", "-", "m", "e">>

ExampleKey ==
  <<"y", "o", "u", "r", "-", "s", "u", "p", "e", "r", "-", "s", "e",
    "c", "r", "e", "t", "-", "k", "e", "y", "-", "c", "h", "a", "n",
    "g", "e", "-", "i", "n", "-", "p", "r", "o", "d", "u", "c", "t",
    "i", "o", "n">>

DevKey ==
  <<"d", "e", "v", "-", "k", "e", "y">>

DefaultSecretKeys == {ChangeMe, ExampleKey, DevKey}

\* 'password', '123456', 'postgres', 'admin'
Password ==
  <<"p", "a", "s", "s", "w", "o", "r", "d">>

OneToSix ==
  <<"1", "2", "3", "4", "5", "6">>

Postgres ==
  <<"p", "o", "s", "t", "g", "r", "e", "s">>

Admin ==
  <<"a", "d", "m", "i", "n">>

WeakPasswords == {Password, OneToSix, Postgres, Admin}

\* 'stock_management', the default of POSTGRES_DB
StockManagement ==
  <<"s", "t", "o", "c", "k", "_", "m", "a", "n", "a", "g", "e", "m",
    "e", "n", "t">>

\* The values the variables take here.  A key of 32 equal characters, a key
\* of 32 characters of which 16 differ, a password of 8 characters, a user
\* name that starts with a digit, and three URLs.
MonotoneKey == [i \in 1 .. 32 |-> "a"]

StrongKey ==
  <<"0", "1", "2", "3", "4", "5", "6", "7", "8", "9", "a", "b", "c",
    "d", "e", "f", "0", "1", "2", "3", "4", "5", "6", "7", "8", "9",
    "a", "b", "c", "d", "e", "f">>

StrongPassword ==
  <<"s", "3", "c", "r", "3", "t", "p", "w">>

DigitUser ==
  <<"1", "u", "s", "e", "r">>

ValidUrl ==
  <<"p", "o", "s", "t", "g", "r", "e", "s", ":", "/", "/", "u", "@",
    "h", "/", "d">>

MysqlUrl ==
  <<"m", "y", "s", "q", "l", ":", "/", "/", "u", "@", "h", "/", "d">>

NoUserUrl ==
  <<"p", "o", "s", "t", "g", "r", "e", "s", ":", "/", "/", "h", "/",
    "d">>

\* ------------------------------------------------------------- urlparse
\* The first position at or after i of s that holds a character of cs;
\* Len(s) + 1 when there is none.
RECURSIVE Find(_, _, _)
Find(s, cs, i) ==
  IF i > Len(s) THEN Len(s) + 1
  ELSE IF s[i] \in cs THEN i
  ELSE Find(s, cs, i + 1)

\* The last position of s that holds c; 0 when there is none.
RECURSIVE FindLast(_, _, _)
FindLast(s, c, i) ==
  IF i < 1 THEN 0
  ELSE IF s[i] = c THEN i
  ELSE FindLast(s, c, i - 1)

\* urllib.parse.urlparse, as far as the validator reads its result: the
\* scheme, the user name and the host name of the network location, and the
\* path.  A part that is absent is the empty string; the validator tests
\* user name and host name for truth only.
urlparse(url) ==
  LET colon == Find(url, {":"}, 1)
      has_scheme ==
        /\ 1 < colon /\ colon <= Len(url)
        /\ url[1] \in Letters
        /\ \A i \in 1 .. colon - 1 :
             url[i] \in Letters \cup Digits \cup {"+", "-", "."}
      scheme == IF has_scheme THEN SubSeq(url, 1, colon - 1) ELSE <<>>
      rest == IF has_scheme THEN SubSeq(url, colon + 1, Len(url)) ELSE url
      has_netloc == Len(rest) >= 2 /\ rest[1] = "/" /\ rest[2] = "/"
      after == IF has_netloc THEN SubSeq(rest, 3, Len(rest)) ELSE rest
      delim == IF has_netloc THEN Find(after, {"/", "?", "#"}, 1) ELSE 1
      netloc == SubSeq(after, 1, delim - 1)
      tail == SubSeq(after, delim, Len(after))
      path == SubSeq(tail, 1, Find(tail, {"?", "#"}, 1) - 1)
      at == FindLast(netloc, "@", Len(netloc))
      userinfo == SubSeq(netloc, 1, at - 1)
      hostinfo == SubSeq(netloc, at + 1, Len(netloc))
  IN [scheme |-> scheme,
      username |-> SubSeq(userinfo, 1, Find(userinfo, {":"}, 1) - 1),
      hostname |-> SubSeq(hostinfo, 1, Find(hostinfo, {":"}, 1) - 1),
      path |-> path]

\* ------------------------------------------------------------- env_validator
REQUIRED_VARS ==
  <<[name |-> "SECRET_KEY", min_length |-> 32,
     validator |-> "validate_secret_key"],
    [name |-> "POSTGRES_PASSWORD", min_length |-> 8,
     validator |-> "validate_password"]>>

\* The optional variables an error can hang on: DATABASE_URL is the one with
\* no default, and _cross_validate reads POSTGRES_DB and POSTGRES_USER.  The
\* other eleven have a default that is true and valid, like these two: a
\* value that fails the validator is a warning and the default is stored.
OPTIONAL_VARS ==
  <<[name |-> "POSTGRES_DB", has_default |-> TRUE,
     default |-> StockManagement, validator |-> "validate_db_name"],
    [name |-> "POSTGRES_USER", has_default |-> TRUE,
     default |-> Postgres, validator |-> "validate_username"],
    [name |-> "DATABASE_URL", has_default |-> FALSE,
     default |-> <<>>, validator |-> "validate_database_url"]>>

\* The validators: the error message, "" when the value is valid.
validate_secret_key(value, config) ==
  IF Len(value) < config.min_length THEN "Must be at least min_length"
  ELSE IF value \in DefaultSecretKeys THEN "Must not use default values"
  ELSE IF Cardinality(Chars(value)) < 10 THEN "Must be more diverse"
  ELSE ""

validate_password(value, config) ==
  IF Len(value) < config.min_length THEN "Must be at least min_length"
  ELSE IF value \in WeakPasswords THEN "Must not use weak passwords"
  ELSE ""

\* re.match(r'^[a-zA-Z][a-zA-Z0-9_]*$', value)
validate_db_name(value, config) ==
  IF /\ Len(value) >= 1
     /\ value[1] \in Letters
     /\ \A i \in 2 .. Len(value) : value[i] \in Letters \cup Digits \cup {"_"}
  THEN ""
  ELSE "Must start with letter"

validate_username(value, config) == validate_db_name(value, config)

validate_database_url(value, config) ==
  LET parsed == urlparse(value) IN
  IF parsed.scheme \notin {<<"p", "o", "s", "t", "g", "r", "e", "s", "q", "l">>,
                           Postgres}
  THEN "Scheme must be postgresql or postgres"
  ELSE IF parsed.hostname = <<>> THEN "Must include hostname"
  ELSE IF parsed.username = <<>> THEN "Must include username"
  ELSE IF parsed.path = <<>> \/ parsed.path = <<"/">>
  THEN "Must include database name in path"
  ELSE ""

\* getattr(self, config['validator'])(value, config)
Validate(value, config) ==
  CASE config.validator = "validate_secret_key" ->
         validate_secret_key(value, config)
    [] config.validator = "validate_password" ->
         validate_password(value, config)
    [] config.validator = "validate_db_name" ->
         validate_db_name(value, config)
    [] config.validator = "validate_username" ->
         validate_username(value, config)
    [] config.validator = "validate_database_url" ->
         validate_database_url(value, config)

\* not os.getenv(var): the variable is unset or empty.
Falsy(env, var) == var \notin DOMAIN env \/ env[var] = <<>>

\* validated_config[var_name] = value
Put(config, var, value) ==
  [k \in DOMAIN config \cup {var} |-> IF k = var THEN value ELSE config[k]]

AddError(self, kind, var) ==
  [self EXCEPT !.errors = Append(@, [kind |-> kind, var |-> var])]

AddWarning(self, kind, var) ==
  [self EXCEPT !.warnings = Append(@, [kind |-> kind, var |-> var])]

Store(self, var, value) ==
  [self EXCEPT !.validated_config = Put(@, var, value)]

\* The instance with its state kept from the call before.
Cleared_Kept(self) == self

\* self.errors.clear(); self.warnings.clear(); self.validated_config.clear()
Cleared(self) ==
  [errors |-> <<>>, warnings |-> <<>>, validated_config |-> <<>>]

\* One iteration of the loop of _validate_required_vars.
RequiredVar(self, env, config) ==
  IF Falsy(env, config.name)
  THEN AddError(self, "missing", config.name)
  ELSE IF Validate(env[config.name], config) # ""
  THEN AddError(self, "invalid", config.name)
  ELSE Store(self, config.name, env[config.name])

RECURSIVE required_vars_from(_, _, _)
required_vars_from(self, env, i) ==
  IF i > Len(REQUIRED_VARS) THEN self
  ELSE required_vars_from(RequiredVar(self, env, REQUIRED_VARS[i]), env, i + 1)

_validate_required_vars(self, env) == required_vars_from(self, env, 1)

\* One iteration of the loop of _validate_optional_vars.
OptionalVar(self, env, config) ==
  IF config.name \notin DOMAIN env /\ ~config.has_default
  THEN self                                        \* value is None
  ELSE
    LET value == IF config.name \in DOMAIN env THEN env[config.name]
                 ELSE config.default
    IN IF Validate(value, config) = ""
       THEN Store(self, config.name, value)
       ELSE IF config.has_default /\ config.default # <<>>
       THEN Store(AddWarning(self, "invalid", config.name),
                  config.name, config.default)
       ELSE AddError(self, "invalid", config.name)

RECURSIVE optional_vars_from(_, _, _)
optional_vars_from(self, env, i) ==
  IF i > Len(OPTIONAL_VARS) THEN self
  ELSE optional_vars_from(OptionalVar(self, env, OPTIONAL_VARS[i]), env, i + 1)

_validate_optional_vars(self, env) == optional_vars_from(self, env, 1)

\* _cross_validate, without the warning about the cookie settings.
_cross_validate(self) ==
  LET config == self.validated_config IN
  IF "DATABASE_URL" \in DOMAIN config /\ config["DATABASE_URL"] # <<>>
  THEN LET parsed == urlparse(config["DATABASE_URL"]) IN
       IF parsed.scheme = <<>> \/ parsed.hostname = <<>>
          \/ parsed.username = <<>>
       THEN AddError(self, "malformed", "DATABASE_URL")
       ELSE self
  ELSE IF {"POSTGRES_USER", "POSTGRES_PASSWORD", "POSTGRES_DB"}
            \subseteq DOMAIN config
       THEN self
       ELSE AddError(self, "database_settings", "DATABASE_URL")

\* validate_all: the instance after the call, and whether it raised
\* EnvironmentValidationError; the configuration is returned when it did not.
validate_all(self, env) ==
  LET checked == _cross_validate(
                   _validate_optional_vars(
                     _validate_required_vars(Cleared(self), env), env))
  IN [self |-> checked, raised |-> checked.errors # <<>>]

\* EnvironmentValidator(): __init__
NewValidator == [errors |-> <<>>, warnings |-> <<>>, validated_config |-> <<>>]

\* validate_startup_environment of config/database.py.
validate_startup_environment(env) ==
  LET missing_vars == {v \in {"SECRET_KEY", "POSTGRES_PASSWORD"} : Falsy(env, v)}
      invalid_vars ==
        {v \in {"SECRET_KEY", "POSTGRES_PASSWORD"} \ missing_vars :
           \/ v = "SECRET_KEY" /\ Len(env[v]) < 32
           \/ v = "POSTGRES_PASSWORD" /\ Len(env[v]) < 8}
  IN missing_vars = {} /\ invalid_vars = {}

\* The environments: each variable unset or set to one of its values.
EnvNames == {"SECRET_KEY", "POSTGRES_PASSWORD", "POSTGRES_USER", "DATABASE_URL"}

EnvValues(var) ==
  CASE var = "SECRET_KEY" -> {DevKey, ExampleKey, MonotoneKey, StrongKey}
    [] var = "POSTGRES_PASSWORD" -> {<<>>, Password, StrongPassword}
    [] var = "POSTGRES_USER" -> {DigitUser}
    [] var = "DATABASE_URL" -> {MysqlUrl, ValidUrl}

Environments ==
  UNION {{env \in [set -> UNION {EnvValues(v) : v \in EnvNames}] :
            \A v \in set : env[v] \in EnvValues(v)} : set \in SUBSET EnvNames}

\* An environment the application starts in.
ProductionEnvironment ==
  [v \in {"SECRET_KEY", "POSTGRES_PASSWORD"} |->
     IF v = "SECRET_KEY" THEN StrongKey ELSE StrongPassword]

\* The validator instance, as a value.
Validator ==
  [errors |-> errors, warnings |-> warnings,
   validated_config |-> validated_config]

\* The instance takes the state `self`, and the call is recorded: how it
\* ended, the environment it read, how many calls the instance has served
\* and how the one before ended.
Record(result, env, calls, previous) ==
  /\ errors' = result.self.errors
  /\ warnings' = result.self.warnings
  /\ validated_config' = result.self.validated_config
  /\ validation' = [outcome |-> IF result.raised THEN "raised" ELSE "returned",
                    env |-> env, calls |-> calls, previous |-> previous]

NotValidated ==
  /\ errors = <<>> /\ warnings = <<>> /\ validated_config = <<>>
  /\ validation = [outcome |-> "None", env |-> <<>>, calls |-> 0,
                   previous |-> "None"]

\* What validate_all leaves in ProductionEnvironment: no error, no warning,
\* the two required variables and the defaults of POSTGRES_DB and
\* POSTGRES_USER.
ProductionConfig ==
  [v \in {"SECRET_KEY", "POSTGRES_PASSWORD", "POSTGRES_DB", "POSTGRES_USER"} |->
     CASE v = "SECRET_KEY" -> StrongKey
       [] v = "POSTGRES_PASSWORD" -> StrongPassword
       [] v = "POSTGRES_DB" -> StockManagement
       [] v = "POSTGRES_USER" -> Postgres]

\* main.py has validated the environment, once, and it was valid.
Validated ==
  /\ environ = ProductionEnvironment
  /\ errors = <<>> /\ warnings = <<>>
  /\ validated_config = ProductionConfig
  /\ validation = [outcome |-> "returned", env |-> ProductionEnvironment,
                   calls |-> 1, previous |-> "None"]

\* ------------------------------------------------------------- threads
\* The development server of app.run handles each request in a thread of its
\* own; two of them are followed.
Threads == {1, 2}

\* The addresses _get_client_ip returns.
ClientIps == {"10.0.0.1"}

\* A thread that is not inside _check_rate_limit; `status` is what its last
\* request was answered.
IdleThread ==
  [pc |-> "idle", client_ip |-> "", current_time |-> 0, status |-> 0]

\* A thread that is not inside stock_transfer.
IdleWorker ==
  [pc |-> "idle", product_id |-> None, from_location_id |-> None,
   to_location_id |-> None, quantity |-> None, source_inventory |-> {},
   status |-> 0]

\* No request has reached the middleware.
NoTraffic ==
  /\ rate_limit_storage = <<>> /\ now = 0
  /\ answered = [ip \in ClientIps |-> EmptyBag]
  /\ threads = [t \in Threads |-> IdleThread]

NoTransfers == workers = [t \in Threads |-> IdleWorker]

\* main.py has not created the application.
NoApp == appCreated = FALSE /\ blueprintsRegistered = FALSE

\* ------------------------------------------------------------- requests
\* Quantities a request may carry.
RequestQuantities == 0 .. MaxQty

\* calculated_usage of the daily counts already stored (the column is
\* nullable), and their counted_quantity (which no handler reads).
StoredUsages == {None, 1}
StoredCounted == {0}

Request(op, p, l, to, d, q) ==
  [op |-> op, product_id |-> p, location_id |-> l, to_location_id |-> to,
   count_date |-> d, quantity |-> q]

\* The order in which the rows of a table get their ids: by key.  No handler
\* reads an id, so a table with the same rows under other ids behaves alike.
InventoryKeyOrder(a, b) ==
  \/ a.product_id < b.product_id
  \/ a.product_id = b.product_id /\ a.location_id <= b.location_id

DailyCountKeyOrder(a, b) ==
  \/ a.product_id < b.product_id
  \/ a.product_id = b.product_id /\ a.location_id < b.location_id
  \/ /\ a.product_id = b.product_id /\ a.location_id = b.location_id
     /\ a.count_date <= b.count_date

\* The tables with at most MaxRows rows, ids 1..n, over the candidate rows.
InventoryTables ==
  LET Cand == [product_id : Products, location_id : Locations,
               quantity : Quantities]
      Tab(f, n) == {[id |-> i, product_id |-> f[i].product_id,
                     location_id |-> f[i].location_id,
                     quantity |-> f[i].quantity] : i \in 1 .. n}
  IN UNION {{Tab(f, n) :
              f \in {g \in [1 .. n -> Cand] :
                       \A i \in 1 .. n - 1 : InventoryKeyOrder(g[i], g[i + 1])}}
            : n \in 0 .. MaxRows}

DailyCountTables ==
  LET Cand == [product_id : Products, location_id : Locations,
               count_date : Dates, counted_quantity : StoredCounted,
               calculated_usage : StoredUsages]
      Tab(f, n) == {[id |-> i, product_id |-> f[i].product_id,
                     location_id |-> f[i].location_id,
                     count_date |-> f[i].count_date,
                     counted_quantity |-> f[i].counted_quantity,
                     calculated_usage |-> f[i].calculated_usage]
                    : i \in 1 .. n}
  IN UNION {{Tab(f, n) :
              f \in {g \in [1 .. n -> Cand] :
                       \A i \in 1 .. n - 1 : DailyCountKeyOrder(g[i], g[i + 1])}}
            : n \in 0 .. MaxRows}

Snapshot == [inventory |-> inventory, transactions |-> transactions,
             dailyCounts |-> dailyCounts]

\* The application is up and serving: the start-up part does not move.
Started ==
  /\ pc = "serving" /\ attempt = 1 /\ outcomes = <<"ok">> /\ slept = <<>>
  /\ waitResult = "True" /\ initCalled = TRUE /\ initResult = "True"
  /\ setupResult = "True" /\ exitStatus = None /\ serving = TRUE
  /\ max_retries = 1 /\ retry_delay = 1000
  /\ Validated
  /\ appCreated = TRUE /\ blueprintsRegistered = TRUE
  /\ NoTraffic /\ NoTransfers

Init ==
  /\ inventory \in {t \in InventoryTables : unique_product_location(t)}
  /\ dailyCounts \in {t \in DailyCountTables : unique_daily_count(t)}
  /\ transactions = <<>>
  /\ req = Request("none", None, None, None, None, None)
  /\ resp = 0
  /\ pre = Snapshot
  /\ Started

\* One request handled from its first line to its response.
Handle(r, out) ==
  LET o == out IN
  /\ pre' = Snapshot
  /\ req' = r
  /\ resp' = o.status
  /\ inventory' = o.inventory
  /\ transactions' = o.transactions
  /\ dailyCounts' = o.dailyCounts
  /\ UNCHANGED <<startvars, envvars, appvars, ratevars, workers>>

StockIn ==
  \E p \in Products, l \in Locations, q \in RequestQuantities :
    Handle(Request("stock_in", p, l, None, None, q),
           stock_in(inventory, transactions, dailyCounts, p, l, q))

StockTransfer ==
  \E p \in Products, from \in Locations, to \in Locations,
     q \in RequestQuantities :
    Handle(Request("stock_transfer", p, from, to, None, q),
           stock_transfer(inventory, transactions, dailyCounts, p, from, to, q))

AdjustInventory ==
  \E p \in Products, l \in Locations, n \in RequestQuantities :
    Handle(Request("adjust_inventory", p, l, None, None, n),
           adjust_inventory(inventory, transactions, dailyCounts, p, l, n))

RecordDailyCount ==
  \E p \in Products, l \in Locations, d \in Dates, c \in RequestQuantities :
    Handle(Request("record_daily_count", p, l, None, d, c),
           record_daily_count(inventory, transactions, dailyCounts, p, l, d, c))

Next == StockIn \/ StockTransfer \/ AdjustInventory \/ RecordDailyCount

Spec == Init /\ [][Next]_vars

\* ------------------------------------------------------------- start-up
\* Times are in milliseconds.
MaxBackoffMs == 60000
MaxLinearMs == 30000

\* retry_delay of the manager (1.0 s by default), and the jitter
\* base_delay * 0.1 * (time.time() % 1) as a percentage of base_delay: the
\* fraction time.time() % 1 lies in [0, 1).
RetryDelays == {1000, 16000}
JitterPercents == {0, 5, 9}

Min(a, b) == IF a <= b THEN a ELSE b

RECURSIVE Pow2(_)
Pow2(n) == IF n <= 0 THEN 1 ELSE 2 * Pow2(n - 1)

\* base_delay = self.retry_delay * (2 ** (attempt - 1))
base_delay(rd, a) == rd * Pow2(a - 1)

\* The delay without the cap.
backoff_delay_Uncapped(rd, a, j) ==
  base_delay(rd, a) + (base_delay(rd, a) * j) \div 100

\* delay = min(base_delay + jitter, 60)
backoff_delay(rd, a, j) ==
  Min(base_delay(rd, a) + (base_delay(rd, a) * j) \div 100, MaxBackoffMs)

\* delay = min(self.retry_delay * attempt, 30)
linear_delay(rd, a) == Min(rd * a, MaxLinearMs)

\* The test one attempt early.
IsLastAttempt_OffByOne(a, m) == a = m - 1

\* if attempt == self.max_retries: ... return False
IsLastAttempt(a, m) == a = m

\* The process has not started the application yet; no request is served,
\* so the tables do not move.
NoRequests ==
  /\ inventory = {} /\ dailyCounts = {} /\ transactions = <<>>
  /\ req = Request("none", None, None, None, None, None)
  /\ resp = 0
  /\ pre = [inventory |-> {}, transactions |-> <<>>, dailyCounts |-> {}]

\* The start-up part at rest at `at`.
StartupAt(at) ==
  /\ pc = at /\ attempt = 0 /\ outcomes = <<>> /\ slept = <<>>
  /\ waitResult = "None" /\ initCalled = FALSE /\ initResult = "None"
  /\ setupResult = "None" /\ exitStatus = None /\ serving = FALSE

\* A process that is not the server: it never starts the application.
Stopped == StartupAt("none") /\ max_retries = 0 /\ retry_delay = 1000

\* main.py at line 71, in any environment.
StartupInit ==
  /\ NoRequests /\ NoApp /\ NoTraffic /\ NoTransfers
  /\ StartupAt("start")
  /\ max_retries \in 0 .. MaxRetriesBound
  /\ retry_delay \in RetryDelays
  /\ environ \in Environments
  /\ NotValidated

\* sys.exit(status), or an uncaught exception at module level: the
\* interpreter exits with 1.
Exit(status) ==
  /\ pc' = "exited" /\ exitStatus' = status /\ serving' = FALSE

\* Every result taken for valid.
validate_environment_Unchecked(env) == [self |-> NewValidator, raised |-> FALSE]

\* validate_environment(): a new EnvironmentValidator, and validate_all.
validate_environment(env) == validate_all(NewValidator, env)

\* if not validate_startup_environment(): sys.exit(1)
ValidateStartupEnvironment ==
  /\ pc = "start"
  /\ IF validate_startup_environment(environ)
     THEN pc' = "validate" /\ UNCHANGED <<exitStatus, serving>>
     ELSE Exit(1)
  /\ UNCHANGED <<attempt, outcomes, slept, waitResult, initCalled,
                 initResult, setupResult, max_retries, retry_delay>>
  /\ UNCHANGED <<dbvars, envvars, appvars, ratevars, workers>>

\* try: validated_config = validate_environment()
\* except EnvironmentValidationError: sys.exit(1)
ValidateEnvironment ==
  /\ pc = "validate"
  /\ \E result \in {validate_environment(environ)} :
     /\ Record(result, environ, 1, "None")
     /\ IF result.raised
        THEN Exit(1)
        ELSE pc' = "create_app" /\ UNCHANGED <<exitStatus, serving>>
  /\ UNCHANGED <<attempt, outcomes, slept, waitResult, initCalled,
                 initResult, setupResult, max_retries, retry_delay>>
  /\ UNCHANGED <<dbvars, environ, appvars, ratevars, workers>>

\* app = Flask(...), the middleware, and the configuration read from
\* validated_config: validated_config['SECRET_KEY'] raises KeyError when the
\* key is not there.
CreateApp ==
  /\ pc = "create_app"
  /\ appCreated' = TRUE
  /\ IF "SECRET_KEY" \in DOMAIN validated_config
     THEN pc' = "register" /\ UNCHANGED <<exitStatus, serving>>
     ELSE Exit(1)
  /\ UNCHANGED <<attempt, outcomes, slept, waitResult, initCalled,
                 initResult, setupResult, max_retries, retry_delay>>
  /\ UNCHANGED <<dbvars, envvars, blueprintsRegistered, ratevars, workers>>

\* app.register_blueprint(...), twelve times.
RegisterBlueprints ==
  /\ pc = "register"
  /\ blueprintsRegistered' = TRUE
  /\ pc' = "configure_db"
  /\ UNCHANGED <<attempt, outcomes, slept, waitResult, initCalled,
                 initResult, setupResult, exitStatus, serving, max_retries,
                 retry_delay>>
  /\ UNCHANGED <<dbvars, envvars, appCreated, ratevars, workers>>

\* get_database_config(validated_config), db.init_app(app) and
\* setup_error_handlers(app): the URL is DATABASE_URL or is built from the
\* parts, and nothing connects yet.
ConfigureDatabase ==
  /\ pc = "configure_db"
  /\ pc' = "setup"
  /\ UNCHANGED <<attempt, outcomes, slept, waitResult, initCalled,
                 initResult, setupResult, exitStatus, serving, max_retries,
                 retry_delay>>
  /\ UNCHANGED <<dbvars, envvars, appvars, ratevars, workers>>

\* setup_database_with_retry up to the call of wait_for_database: the engine
\* configuration reads integers from the environment and raises on a value
\* that is not one; nothing in main.py catches it.
ConfigureEngine ==
  /\ pc = "setup"
  /\ \/ /\ pc' = "wait" /\ attempt' = 1
        /\ UNCHANGED <<exitStatus, serving>>
     \/ /\ Exit(1)
        /\ UNCHANGED attempt
  /\ UNCHANGED <<outcomes, slept, waitResult, initCalled, initResult,
                 setupResult, max_retries, retry_delay>>
  /\ UNCHANGED <<dbvars, envvars, appvars, ratevars, workers>>

\* One iteration of the loop whose try block ends without an exception.
AttemptSucceeds ==
  /\ pc = "wait" /\ attempt <= max_retries
  /\ outcomes' = Append(outcomes, "ok")
  /\ waitResult' = "True"
  /\ pc' = "waited"
  /\ UNCHANGED <<attempt, slept, initCalled, initResult, setupResult,
                 exitStatus, serving, max_retries, retry_delay>>
  /\ UNCHANGED <<dbvars, envvars, appvars, ratevars, workers>>

\* One iteration that ends in `kind` and would sleep `delay`.
AttemptFails(kind, delay) ==
  /\ pc = "wait" /\ attempt <= max_retries
  /\ outcomes' = Append(outcomes, kind)
  /\ IF IsLastAttempt(attempt, max_retries)
     THEN /\ waitResult' = "False"
          /\ pc' = "waited"
          /\ UNCHANGED <<attempt, slept>>
     ELSE /\ slept' = Append(slept, [attempt |-> attempt, kind |-> kind,
                                     delay |-> delay])
          /\ attempt' = attempt + 1
          /\ UNCHANGED <<waitResult, pc>>
  /\ UNCHANGED <<initCalled, initResult, setupResult, exitStatus, serving,
                 max_retries, retry_delay>>
  /\ UNCHANGED <<dbvars, envvars, appvars, ratevars, workers>>

\* except (OperationalError, DatabaseError)
AttemptDatabaseError ==
  \E j \in JitterPercents :
    AttemptFails("db_error", backoff_delay(retry_delay, attempt, j))

\* except Exception
AttemptUnexpectedError ==
  AttemptFails("unexpected", linear_delay(retry_delay, attempt))

\* The loop is over without a return: return False (line 214).
LoopExhausted ==
  /\ pc = "wait" /\ attempt > max_retries
  /\ waitResult' = "False"
  /\ pc' = "waited"
  /\ UNCHANGED <<attempt, outcomes, slept, initCalled, initResult,
                 setupResult, exitStatus, serving, max_retries, retry_delay>>
  /\ UNCHANGED <<dbvars, envvars, appvars, ratevars, workers>>

\* The result of wait_for_database ignored.
WaitFailed_Ignored(w) == FALSE

\* not db_manager.wait_for_database()
WaitFailed(w) == w = "False"

\* if not db_manager.wait_for_database(): return False
AfterWait ==
  /\ pc = "waited"
  /\ IF WaitFailed(waitResult)
     THEN setupResult' = "False" /\ pc' = "setup_done"
     ELSE setupResult' = setupResult /\ pc' = "init"
  /\ UNCHANGED <<attempt, outcomes, slept, waitResult, initCalled,
                 initResult, exitStatus, serving, max_retries, retry_delay>>
  /\ UNCHANGED <<dbvars, envvars, appvars, ratevars, workers>>

\* initialize_database: True, or False when create_all or the seeding raised.
InitializeDatabase ==
  /\ pc = "init"
  /\ initCalled' = TRUE
  /\ initResult' \in {"True", "False"}
  /\ pc' = "inited"
  /\ UNCHANGED <<attempt, outcomes, slept, waitResult, setupResult,
                 exitStatus, serving, max_retries, retry_delay>>
  /\ UNCHANGED <<dbvars, envvars, appvars, ratevars, workers>>

\* if not db_manager.initialize_database(): return False ... return True
AfterInitialize ==
  /\ pc = "inited"
  /\ setupResult' = initResult
  /\ pc' = "setup_done"
  /\ UNCHANGED <<attempt, outcomes, slept, waitResult, initCalled,
                 initResult, exitStatus, serving, max_retries, retry_delay>>
  /\ UNCHANGED <<dbvars, envvars, appvars, ratevars, workers>>

\* main.py: if not setup_database_with_retry(app, db): sys.exit(1); the rest
\* of the module runs and the application serves otherwise.
MainAfterSetup ==
  /\ pc = "setup_done"
  /\ IF setupResult = "False"
     THEN Exit(1)
     ELSE pc' = "serving" /\ serving' = TRUE /\ exitStatus' = exitStatus
  /\ UNCHANGED <<attempt, outcomes, slept, waitResult, initCalled,
                 initResult, setupResult, max_retries, retry_delay>>
  /\ UNCHANGED <<dbvars, envvars, appvars, ratevars, workers>>

StartupNext ==
  \/ ValidateStartupEnvironment
  \/ ValidateEnvironment
  \/ CreateApp
  \/ RegisterBlueprints
  \/ ConfigureDatabase
  \/ ConfigureEngine
  \/ AttemptSucceeds
  \/ AttemptDatabaseError
  \/ AttemptUnexpectedError
  \/ LoopExhausted
  \/ AfterWait
  \/ InitializeDatabase
  \/ AfterInitialize
  \/ MainAfterSetup

StartupSpec == StartupInit /\ [][StartupNext]_vars

\* The steps of the loop of wait_for_database.
WaitNext ==
  \/ AttemptSucceeds
  \/ AttemptDatabaseError
  \/ AttemptUnexpectedError
  \/ LoopExhausted

\* The loop keeps running: a connection attempt ends (the driver's
\* connect_timeout bounds it) and time.sleep returns.
StartupFairSpec == StartupSpec /\ WF_vars(WaitNext)

\* ------------------------------------------------------------- one validator
\* One EnvironmentValidator instance whose validate_all is called again and
\* again while the environment of the process changes between the calls.
MaxCalls == 2

ValidatorInit ==
  /\ NoRequests /\ Stopped /\ NoApp /\ NoTraffic /\ NoTransfers
  /\ environ \in Environments
  /\ NotValidated

\* os.environ[var] = value
PutEnv ==
  /\ \E var \in EnvNames : \E value \in EnvValues(var) :
       environ' = Put(environ, var, value)
  /\ UNCHANGED <<errors, warnings, validated_config, validation>>
  /\ UNCHANGED <<dbvars, startvars, appvars, ratevars, workers>>

\* del os.environ[var]
DelEnv ==
  /\ \E var \in DOMAIN environ :
       environ' = [v \in DOMAIN environ \ {var} |-> environ[v]]
  /\ UNCHANGED <<errors, warnings, validated_config, validation>>
  /\ UNCHANGED <<dbvars, startvars, appvars, ratevars, workers>>

\* validator.validate_all()
ValidateAll ==
  /\ validation.calls < MaxCalls
  /\ \E result \in {validate_all(Validator, environ)} :
       Record(result, environ, validation.calls + 1, validation.outcome)
  /\ UNCHANGED environ
  /\ UNCHANGED <<dbvars, startvars, appvars, ratevars, workers>>

ValidatorNext == PutEnv \/ DelEnv \/ ValidateAll

ValidatorSpec == ValidatorInit /\ [][ValidatorNext]_vars

\* ------------------------------------------------------------- rate limit
\* SecurityMiddleware.config; times are in seconds.
rate_limit_requests == 100
rate_limit_window == 3600
rate_limit_burst == 20

\* The clock moves in steps of TickSeconds, MaxTicks times.
TickSeconds == 60
MaxTicks == 1

\* client_data['requests'] is a list that the code appends to and reads
\* through comprehensions that filter and count; it is held as the bag of
\* its elements.
\* [req_time for req_time in requests if req_time > cutoff_time]
After(requests, cutoff_time) ==
  [req_time \in {r \in DOMAIN requests : r > cutoff_time} |->
     requests[req_time]]

\* [req_time for req_time in requests if current_time - req_time < age]
Within(requests, current_time, age) ==
  [req_time \in {r \in DOMAIN requests : current_time - r < age} |->
     requests[req_time]]

\* _cleanup_rate_limit_storage(current_time)
_cleanup_rate_limit_storage(storage, current_time) ==
  LET cutoff_time == current_time - rate_limit_window
      cleaned == [ip \in DOMAIN storage |->
                    [storage[ip] EXCEPT
                       !.requests = After(@, cutoff_time)]]
      kept == {ip \in DOMAIN storage :
                 ~(/\ DOMAIN cleaned[ip].requests = {}
                   /\ current_time - cleaned[ip].last_request > 3600)}
  IN [ip \in kept |-> cleaned[ip]]

\* Neither limit is met; _check_rate_limit returns False otherwise.
WithinLimits(client_data, current_time) ==
  LET recent_requests == Within(client_data.requests, current_time, 60)
      hourly_requests ==
        Within(client_data.requests, current_time, rate_limit_window)
  IN /\ ~(BagCardinality(recent_requests) >= rate_limit_burst)
     /\ ~(BagCardinality(hourly_requests) >= rate_limit_requests)

\* The application serves; no request has reached the middleware.
RateInit ==
  /\ NoRequests /\ Started

\* _check_rate_limit from its first line to the two checks (lines 176-206):
\* the thread reads the clock, cleans the storage, gets or creates the record
\* of its address and counts; it returns False (429) when a limit is met.
BeginCheck(t) ==
  /\ threads[t].pc = "idle"
  /\ \E client_ip \in ClientIps :
       LET current_time == now
           cleaned == _cleanup_rate_limit_storage(rate_limit_storage,
                                                  current_time)
           storage ==
             IF client_ip \in DOMAIN cleaned THEN cleaned
             ELSE Put(cleaned, client_ip,
                      [requests |-> EmptyBag, burst_count |-> 0,
                       last_request |-> current_time])
       IN /\ rate_limit_storage' = storage
          /\ threads' =
               [threads EXCEPT ![t] =
                  [pc |-> IF WithinLimits(storage[client_ip], current_time)
                          THEN "passed" ELSE "idle",
                   client_ip |-> client_ip,
                   current_time |-> current_time,
                   status |-> IF WithinLimits(storage[client_ip], current_time)
                              THEN 0 ELSE 429]]
  /\ UNCHANGED <<now, answered>>
  /\ UNCHANGED <<dbvars, startvars, envvars, appvars, workers>>

\* _check_rate_limit from line 209 on: the request is added to client_data,
\* the record the thread holds, which is in the storage unless a cleanup has
\* deleted it meanwhile; the request is accepted.
AddRequest(t) ==
  /\ threads[t].pc = "passed"
  /\ LET client_ip == threads[t].client_ip
         current_time == threads[t].current_time
     IN /\ rate_limit_storage' =
             IF client_ip \in DOMAIN rate_limit_storage
             THEN [rate_limit_storage EXCEPT
                     ![client_ip].requests = @ (+) SetToBag({current_time}),
                     ![client_ip].last_request = current_time]
             ELSE rate_limit_storage
        /\ answered' = [answered EXCEPT
                          ![client_ip] = @ (+) SetToBag({current_time})]
  /\ threads' = [threads EXCEPT ![t] = [IdleThread EXCEPT !.status = 200]]
  /\ UNCHANGED now
  /\ UNCHANGED <<dbvars, startvars, envvars, appvars, workers>>

\* Time passes.
Tick ==
  /\ now + TickSeconds <= MaxTicks * TickSeconds
  /\ now' = now + TickSeconds
  /\ UNCHANGED <<rate_limit_storage, threads, answered>>
  /\ UNCHANGED <<dbvars, startvars, envvars, appvars, workers>>

RateNext ==
  \/ \E t \in Threads : BeginCheck(t)
  \/ \E t \in Threads : AddRequest(t)
  \/ Tick

RateSpec == RateInit /\ [][RateNext]_vars

\* ------------------------------------------------------------- two transfers
\* Two stock_transfer requests, each served by a thread of its own with a
\* session of its own (app.run, main.py:192). pre keeps the tables as they
\* were before the two requests.
TransferInit ==
  /\ inventory \in {t \in InventoryTables : unique_product_location(t)}
  /\ dailyCounts = {}
  /\ transactions = <<>>
  /\ req = Request("none", None, None, None, None, None)
  /\ resp = 0
  /\ pre = Snapshot
  /\ Started

\* stock_transfer from its first line to the query of the source inventory
\* (lines 48-59): the session holds the row as it was read.
ReadSource(t) ==
  /\ workers[t].pc = "idle"
  /\ \E p \in Products, from \in Locations, to \in Locations,
        q \in RequestQuantities :
       workers' = [workers EXCEPT ![t] =
                     [pc |-> "read", product_id |-> p,
                      from_location_id |-> from, to_location_id |-> to,
                      quantity |-> q,
                      source_inventory |-> InventoryOf(inventory, p, from),
                      status |-> 0]]
  /\ UNCHANGED <<dbvars, startvars, envvars, appvars, ratevars>>

\* stock_transfer from the stock check to its response (lines 61-108), on the
\* row read before and the tables as they are now.
FinishTransfer(t) ==
  /\ workers[t].pc = "read"
  /\ LET w == workers[t]
         o == stock_transfer_from(w.source_inventory, inventory, transactions,
                                  dailyCounts, w.product_id,
                                  w.from_location_id, w.to_location_id,
                                  w.quantity)
     IN /\ inventory' = o.inventory
        /\ transactions' = o.transactions
        /\ dailyCounts' = o.dailyCounts
        /\ workers' = [workers EXCEPT ![t].pc = "done",
                                      ![t].status = o.status]
  /\ UNCHANGED <<req, resp, pre>>
  /\ UNCHANGED <<startvars, envvars, appvars, ratevars>>

TransferNext ==
  \/ \E t \in Threads : ReadSource(t)
  \/ \E t \in Threads : FinishTransfer(t)

TransferSpec == TransferInit /\ [][TransferNext]_vars

\* ------------------------------------------------------------- properties
\* The inventory records of product p at location l in the table inv.
Records(inv, p, l) ==
  {r \in inv : r.product_id = p /\ r.location_id = l}

\* The daily counts of product p at location l for day d in the table dc.
Counts(dc, p, l, d) ==
  {r \in dc : r.product_id = p /\ r.location_id = l /\ r.count_date = d}

\* The quantity the inventory holds for (p, l): 0 when there is no record.
Qty(inv, p, l) ==
  IF Records(inv, p, l) = {} THEN 0
  ELSE First(Records(inv, p, l)).quantity

RECURSIVE SumQty(_)
SumQty(rows) ==
  IF rows = {} THEN 0
  ELSE LET r == CHOOSE x \in rows : TRUE
       IN r.quantity + SumQty(rows \ {r})

\* The sum of a product's inventory quantities over all locations.
Total(inv, p) == SumQty({r \in inv : r.product_id = p})

\* Every inventory record but the ones of (p, l1) and (p, l2) is as before.
OthersUnchanged(p, l1, l2) ==
  {r \in inventory : ~(r.product_id = p /\ r.location_id \in {l1, l2})}
    = {r \in pre.inventory : ~(r.product_id = p /\ r.location_id \in {l1, l2})}

TablesUnchanged ==
  /\ inventory = pre.inventory
  /\ transactions = pre.transactions
  /\ dailyCounts = pre.dailyCounts

\* C1: a stock_transfer with from_location # to_location and a positive
\* quantity q that the source inventory covers returns 201, takes q from the
\* source, adds q to the destination (creating its record when there was
\* none) and leaves the product's total over all locations unchanged.
C1_TransferMovesStock ==
  (/\ req.op = "stock_transfer"
   /\ req.location_id # req.to_location_id
   /\ req.quantity > 0
   /\ Records(pre.inventory, req.product_id, req.location_id) # {}
   /\ req.quantity <= Qty(pre.inventory, req.product_id, req.location_id))
  => /\ resp = 201
     /\ Qty(inventory, req.product_id, req.location_id)
          = Qty(pre.inventory, req.product_id, req.location_id) - req.quantity
     /\ Records(inventory, req.product_id, req.to_location_id) # {}
     /\ Qty(inventory, req.product_id, req.to_location_id)
          = Qty(pre.inventory, req.product_id, req.to_location_id)
              + req.quantity
     /\ Total(inventory, req.product_id) = Total(pre.inventory, req.product_id)

\* C2: a stock_transfer whose source inventory record does not exist, or
\* holds less than the requested quantity, returns 400 and leaves every
\* inventory record and the stock transactions unchanged.
C2_InsufficientStockRejected ==
  (/\ req.op = "stock_transfer"
   /\ \/ Records(pre.inventory, req.product_id, req.location_id) = {}
      \/ Qty(pre.inventory, req.product_id, req.location_id) < req.quantity)
  => /\ resp = 400
     /\ TablesUnchanged

\* A transfer of more than the source record holds has been answered 400.
C2_Witness ==
  /\ req.op = "stock_transfer"
  /\ Records(pre.inventory, req.product_id, req.location_id) # {}
  /\ Qty(pre.inventory, req.product_id, req.location_id) < req.quantity
  /\ resp = 400

\* C3: a stock_in for (product, location) with quantity q returns 201, adds
\* exactly one 'stock_in' transaction with quantity q, makes the inventory
\* quantity of (product, location) its previous quantity (0 without a
\* record) plus q, and changes no other inventory record.
C3_StockInAddsQuantity ==
  req.op = "stock_in"
  => /\ resp = 201
     /\ transactions
          = Append(pre.transactions,
                   Txn(req.product_id, req.location_id, "stock_in",
                       req.quantity))
     /\ Records(inventory, req.product_id, req.location_id) # {}
     /\ Qty(inventory, req.product_id, req.location_id)
          = Qty(pre.inventory, req.product_id, req.location_id) + req.quantity
     /\ OthersUnchanged(req.product_id, req.location_id, req.location_id)

\* C4: record_daily_count for a (product, location, date) with an inventory
\* record and no DailyCount returns 201, stores a DailyCount whose
\* calculated_usage is the inventory quantity before the call minus
\* counted_quantity, and sets the inventory quantity to counted_quantity.
C4_NewDailyCountStored ==
  (/\ req.op = "record_daily_count"
   /\ Records(pre.inventory, req.product_id, req.location_id) # {}
   /\ Counts(pre.dailyCounts, req.product_id, req.location_id,
                   req.count_date) = {})
  => /\ resp = 201
     /\ \E r \in Counts(dailyCounts, req.product_id, req.location_id,
                              req.count_date) :
          /\ r.counted_quantity = req.quantity
          /\ r.calculated_usage
               = Qty(pre.inventory, req.product_id, req.location_id)
                   - req.quantity
     /\ Qty(inventory, req.product_id, req.location_id) = req.quantity

C7_CountWithoutInventoryRejected ==
  (/\ req.op = "record_daily_count"
   /\ Records(pre.inventory, req.product_id, req.location_id) = {})
  => /\ resp = 404
     /\ TablesUnchanged

\* A count for a location without a record of the product was answered 404
\* while another location holds the product.
C7_Witness ==
  /\ req.op = "record_daily_count"
  /\ Records(pre.inventory, req.product_id, req.location_id) = {}
  /\ \E r \in pre.inventory : r.product_id = req.product_id
  /\ resp = 404

\* C8: adjust_inventory for (product, location) with new_quantity n sets
\* that inventory's quantity to n (creating the record when absent, the
\* prior quantity then being 0), records exactly one 'adjustment'
\* transaction of quantity n minus the quantity before the call, and changes
\* no other inventory record.
C8_AdjustSetsQuantity ==
  req.op = "adjust_inventory"
  => /\ Records(inventory, req.product_id, req.location_id) # {}
     /\ Qty(inventory, req.product_id, req.location_id) = req.quantity
     /\ transactions
          = Append(pre.transactions,
                   Txn(req.product_id, req.location_id, "adjustment",
                       req.quantity
                         - Qty(pre.inventory, req.product_id,
                               req.location_id)))
     /\ OthersUnchanged(req.product_id, req.location_id, req.location_id)

\* No attempt made so far succeeded.
AllFailed == \A i \in 1 .. Len(outcomes) : outcomes[i] # "ok"

\* What wait_for_database has done so far, and what it returned.
WaitForDatabaseContract ==
  /\ Len(outcomes) <= max_retries
  /\ pc = "wait" => /\ waitResult = "None"
                    /\ Len(outcomes) = attempt - 1
                    /\ AllFailed
  /\ waitResult = "True" => /\ Len(outcomes) >= 1
                            /\ outcomes[Len(outcomes)] = "ok"
                            /\ \A i \in 1 .. Len(outcomes) - 1 :
                                 outcomes[i] # "ok"
  /\ waitResult = "False" => /\ Len(outcomes) = max_retries
                             /\ AllFailed
  /\ (pc \notin {"setup", "wait"} /\ waitResult # "None"
        /\ Len(outcomes) = max_retries /\ AllFailed)
     => waitResult = "False"

\* C9: wait_for_database always terminates after at most max_retries
\* connection attempts: it returns True right after the first attempt that
\* succeeds, making no further attempt, and it returns False exactly when
\* all max_retries attempts failed, whatever mix of database errors and
\* unexpected exceptions they ended in.
C9_WaitForDatabaseTerminates ==
  /\ []WaitForDatabaseContract
  /\ (pc = "wait") ~> (waitResult # "None")

\* wait_for_database returned False after a database error, an unexpected
\* exception and a last failed attempt.
C9_Witness ==
  /\ waitResult = "False"
  /\ Len(outcomes) = max_retries
  /\ max_retries >= 3
  /\ \E i \in 1 .. Len(outcomes) : outcomes[i] = "db_error"
  /\ \E i \in 1 .. Len(outcomes) : outcomes[i] = "unexpected"

\* C10: setup_database_with_retry calls initialize_database only after
\* wait_for_database returned True, returns True only if both returned True,
\* and when it returns False the start-up exits with status 1 without
\* serving requests.
C10_SetupOrder ==
  /\ initCalled => waitResult = "True"
  /\ setupResult = "True" => waitResult = "True" /\ initResult = "True"
  /\ setupResult = "False" => /\ ~serving
                              /\ pc \in {"setup_done", "exited"}
                              /\ pc = "exited" => exitStatus = 1
  /\ serving => setupResult = "True"

\* The start-up exited with status 1 because initialize_database returned
\* False after a successful wait.
C10_Witness ==
  /\ pc = "exited" /\ exitStatus = 1
  /\ setupResult = "False"
  /\ waitResult = "True" /\ initCalled /\ initResult = "False"

\* C11: the environment is validated before the application starts: when
\* validate_startup_environment returns False or validate_environment
\* raises, the process exits with status 1 before the Flask app is created,
\* before any blueprint is registered and before any database connection is
\* attempted.
C11_ValidatedBeforeStart ==
  (\/ ~validate_startup_environment(environ)
   \/ validate_all(NewValidator, environ).raised)
  => /\ ~appCreated /\ ~blueprintsRegistered
     /\ attempt = 0 /\ outcomes = <<>> /\ ~initCalled /\ ~serving
     /\ pc \in {"start", "validate", "exited"}
     /\ pc = "exited" => exitStatus = 1

\* The quick check passed, validate_environment raised and the process
\* exited with status 1.
C11_Witness ==
  /\ pc = "exited" /\ exitStatus = 1
  /\ validate_startup_environment(environ)
  /\ validation.outcome = "raised"
  /\ ~appCreated /\ ~blueprintsRegistered /\ outcomes = <<>>

\* Two configurations hold the same variables with the same values.
SameConfig(a, b) ==
  /\ DOMAIN a = DOMAIN b
  /\ \A k \in DOMAIN a : a[k] = b[k]

\* C12: validate_all raises EnvironmentValidationError if and only if at
\* least one error was collected; it raises whenever a required variable
\* (SECRET_KEY, POSTGRES_PASSWORD) is missing or fails its validator; when it
\* returns, the configuration holds every required variable with its value
\* in the environment; and every call starts from cleared errors, warnings
\* and configuration, so that what a call leaves is what the first call of a
\* new validator leaves in the same environment.
C12_ValidateAllContract ==
  validation.outcome # "None" =>
    LET env == validation.env
        first == validate_all(NewValidator, env)
    IN /\ (validation.outcome = "raised") <=> (errors # <<>>)
       /\ \A i \in 1 .. Len(REQUIRED_VARS) :
            LET config == REQUIRED_VARS[i] IN
            /\ (\/ Falsy(env, config.name)
                \/ Validate(env[config.name], config) # "")
               => validation.outcome = "raised"
            /\ validation.outcome = "returned"
               => /\ config.name \in DOMAIN validated_config
                  /\ config.name \in DOMAIN env
                  /\ validated_config[config.name] = env[config.name]
       /\ errors = first.self.errors
       /\ warnings = first.self.warnings
       /\ SameConfig(validated_config, first.self.validated_config)
       /\ (validation.outcome = "raised") <=> first.raised

\* The second call of one validator returned, with a warning, after the
\* first had raised in another environment.
C12_Witness ==
  /\ validation.calls = 2
  /\ validation.previous = "raised"
  /\ validation.outcome = "returned"
  /\ warnings # <<>>
  /\ "DATABASE_URL" \in DOMAIN validated_config

\* The sleeps that followed an OperationalError or a DatabaseError.
BackoffSleeps == {i \in 1 .. Len(slept) : slept[i].kind = "db_error"}

\* C15: in wait_for_database, after the n-th attempt failed with an
\* OperationalError or a DatabaseError (n < max_retries), the delay slept
\* before the next attempt is at least min(retry_delay * 2^(n-1), 60 s) and
\* at most 60 s; these delays do not decrease as n grows; and nothing is
\* slept after the final failed attempt.
C15_BackoffDelays ==
  /\ \A i \in BackoffSleeps :
       LET n == slept[i].attempt IN
       /\ n < max_retries
       /\ slept[i].delay >= Min(retry_delay * Pow2(n - 1), 60000)
       /\ slept[i].delay <= 60000
  /\ \A i \in BackoffSleeps : \A j \in BackoffSleeps :
       slept[i].attempt <= slept[j].attempt => slept[i].delay <= slept[j].delay
  /\ \A i \in 1 .. Len(slept) : slept[i].attempt < max_retries
  /\ waitResult = "False" /\ max_retries >= 1
       => Len(slept) = max_retries - 1

\* Four attempts failed with database errors: a delay with jitter, a longer
\* one, one cut to 60 s, and no sleep after the fourth.
C15_Witness ==
  /\ waitResult = "False" /\ max_retries = 4
  /\ Len(outcomes) = 4 /\ \A i \in 1 .. 4 : outcomes[i] = "db_error"
  /\ Len(slept) = 3
  /\ slept[1].delay > retry_delay
  /\ slept[2].delay > slept[1].delay
  /\ slept[3].delay = 60000

\* The number of requests of ip accepted in the 60 seconds before `time`.
AcceptedWithin(ip, time) ==
  BagCardinality([a \in {x \in DOMAIN answered[ip] :
                           x <= time /\ time - x < 60} |-> answered[ip][a]])

\* C13: for every client address and every instant, the number of requests of
\* that address that _check_rate_limit accepted within the preceding 60
\* seconds never exceeds rate_limit_burst (20); and a request that arrives
\* when 20 accepted requests lie in the last 60 seconds is answered 429.
C13_BurstLimit ==
  /\ [](\A ip \in ClientIps :
          \A time \in {now} \cup DOMAIN answered[ip] :
            AcceptedWithin(ip, time) <= 20)
  /\ [][\A t \in Threads :
          (/\ threads[t].pc = "idle" /\ threads'[t] # threads[t]
           /\ AcceptedWithin(threads'[t].client_ip, now) >= 20)
          => threads'[t].status = 429]_vars

\* The quantity worker t has taken from its source: its request's quantity
\* when it was answered 201.
Transferred(t) ==
  IF workers[t].status = 201 THEN workers[t].quantity ELSE 0

\* Worker t has read a source record that covers the positive quantity of its
\* request, for a destination other than the source.
PassedStockCheck(t) ==
  /\ workers[t].from_location_id # workers[t].to_location_id
  /\ workers[t].quantity > 0
  /\ workers[t].source_inventory # {}
  /\ \A r \in workers[t].source_inventory : workers[t].quantity <= r.quantity

\* C14: when two stock_transfer requests for the same product and source
\* location have run interleaved, each one that read a source record covering
\* its quantity has written the decremented value and committed (201), the
\* final source quantity is the initial one minus the quantities of the
\* transfers answered 201, and it is not negative.
C14_InterleavedTransfers ==
  (/\ \A t \in Threads : workers[t].pc = "done"
   /\ \A t, u \in Threads :
        /\ workers[t].product_id = workers[u].product_id
        /\ workers[t].from_location_id = workers[u].from_location_id)
  => \A t \in Threads :
       LET p == workers[t].product_id
           l == workers[t].from_location_id
       IN /\ PassedStockCheck(t) => workers[t].status = 201
          /\ Qty(inventory, p, l)
               = Qty(pre.inventory, p, l) - Transferred(1) - Transferred(2)
          /\ Qty(inventory, p, l) >= 0

====
